---- MODULE Spec2Model ----
(***************************************************************************)
(* nifty-bot-v2: the /chat endpoint and its SQLite session memory          *)
(* (src/main.py).  The sessions table is a map from session id to one TEXT *)
(* column holding the JSON list of {role, text} turns.                     *)
(***************************************************************************)
EXTENDS Integers, Sequences, FiniteSets, TLC

(***************************************************************************)
(* Bounds of the model.                                                    *)
(***************************************************************************)
\* Longest request message, in characters.
MaxMsgLen == 2
\* Number of chat requests (request flows) a behaviour holds.
NumFlows == 2
\* Total number of save_message calls of the store-level specification.
MaxAppends == 23
\* Longest repeating script of turns the store-level callers append.
MaxScript == 2

(***************************************************************************)
(* Program constants.                                                      *)
(***************************************************************************)
\* def get_messages(self, session_id, limit: int = 20)
DefaultLimit == 20

Roles == {"user", "assistant"}
Chars == {" ", "a"}
Whitespace == {" "}

Min(a, b) == IF a < b THEN a ELSE b
Max(a, b) == IF a > b THEN a ELSE b

\* All strings (sequences of characters) of length at most n.
Strings(n) == UNION {[1..k -> Chars] : k \in 0..n}

\* The last k elements of a sequence (all of it when k >= Len).
LastK(seq, k) == SubSeq(seq, Len(seq) - Min(k, Len(seq)) + 1, Len(seq))

(***************************************************************************)
(* Python helpers.                                                         *)
(***************************************************************************)
\* A slice that starts one element late: seq[start + 1:].
PySliceFrom_late(seq, start) ==
    LET n == Len(seq)
        lo == IF start + 1 < 0 THEN Max(n + start + 1, 0) ELSE Min(start + 1, n)
    IN  SubSeq(seq, lo + 1, n)

\* seq[start:] for any integer start: a negative start counts from the end
\* and is clamped at 0, a start past the end gives the empty list.
PySliceFrom(seq, start) ==
    LET n == Len(seq)
        lo == IF start < 0 THEN Max(n + start, 0) ELSE Min(start, n)
    IN  SubSeq(seq, lo + 1, n)

\* A strip that was left out: the text as sent.
strip_missing(s) == s

\* str.strip(): drop leading and trailing whitespace.
RECURSIVE lstrip(_)
lstrip(s) ==
    IF s # <<>> /\ Head(s) \in Whitespace THEN lstrip(Tail(s)) ELSE s

RECURSIVE rstrip(_)
rstrip(s) ==
    IF s # <<>> /\ s[Len(s)] \in Whitespace
    THEN rstrip(SubSeq(s, 1, Len(s) - 1))
    ELSE s

strip(s) ==
    rstrip(lstrip(s))

(***************************************************************************)
(* json.dumps / json.loads of a list of {"role": r, "text": t} objects,    *)
(* as a flat token string:  [ { role : c c c } { role : c } ]              *)
(***************************************************************************)
Turn(role, text) == [role |-> role, text |-> text]

dumps_turn(m) == <<"{", m.role, ":">> \o m.text \o <<"}">>

RECURSIVE dumps_items(_)
dumps_items(messages) ==
    IF messages = <<>> THEN <<>>
    ELSE dumps_turn(Head(messages)) \o dumps_items(Tail(messages))

json_dumps(messages) == <<"[">> \o dumps_items(messages) \o <<"]">>

\* Index of the first "}" at or after position i.
RECURSIVE close_of(_, _)
close_of(toks, i) == IF toks[i] = "}" THEN i ELSE close_of(toks, i + 1)

\* Parse the objects that start at position i, up to the closing "]".
RECURSIVE loads_items(_, _)
loads_items(toks, i) ==
    IF toks[i] = "]" THEN <<>>
    ELSE LET j == close_of(toks, i)
         IN  <<Turn(toks[i + 1], SubSeq(toks, i + 3, j - 1))>>
                 \o loads_items(toks, j + 1)

json_loads(toks) == loads_items(toks, 2)

(***************************************************************************)
(* State.                                                                  *)
(*   db      the sessions table: session_id -> messages TEXT (tokens)      *)
(*   log     history: per session id, every turn save_message wrote,       *)
(*           in write order                                                *)
(*   ret     the last get_messages call of a store-level caller            *)
(*   script  the turns the store-level callers append, repeated in order   *)
(*   flow    the chat requests in flight                                   *)
(***************************************************************************)
VARIABLES db, log, ret, script, flow

vars == <<db, log, ret, script, flow>>

\* Session ids a client makes up, and the ids secrets.token_urlsafe returns
\* (the i-th call returns TokenPool[i]; no two calls return the same id).
ClientIds == {"s1"}
TokenPool == <<"t1", "t2", "t3", "t4">>
Tokens == {TokenPool[i] : i \in 1..NumFlows}
SessionIds == ClientIds \cup Tokens

\* The sessions the store-level callers use.
StoreIds == ClientIds \cup {TokenPool[1]}

(***************************************************************************)
(* SessionManager.                                                         *)
(***************************************************************************)
\* A get_messages that keeps the first `limit` turns: messages[:limit].
get_messages_head(d, session_id, limit) ==
    IF session_id \in DOMAIN d /\ d[session_id] # <<>>
    THEN SubSeq(json_loads(d[session_id]), 1,
                Min(limit, Len(json_loads(d[session_id]))))
    ELSE <<>>

\* get_messages(session_id, limit): the SELECT, then
\*   if row and row["messages"]: return json.loads(row["messages"])[-limit:]
\*   return []
get_messages(d, session_id, limit) ==
    IF session_id \in DOMAIN d /\ d[session_id] # <<>>
    THEN PySliceFrom(json_loads(d[session_id]), 0 - limit)
    ELSE <<>>

\* An upsert whose update has no WHERE: every record gets the new text.
upsert_all(d, session_id, text) ==
    [s \in DOMAIN d \cup {session_id} |-> text]

\* An insert that leaves an existing record alone (ON CONFLICT DO NOTHING).
upsert_ignore(d, session_id, text) ==
    IF session_id \in DOMAIN d THEN d
    ELSE [s \in DOMAIN d \cup {session_id} |->
             IF s = session_id THEN text ELSE d[s]]

\* INSERT ... ON CONFLICT(session_id) DO UPDATE SET messages=?
upsert(d, session_id, text) ==
    [s \in DOMAIN d \cup {session_id} |-> IF s = session_id THEN text ELSE d[s]]

\* A save_message that reads only the last stored turn back.
save_read_short(d, session_id, role, text) ==
    Append(get_messages(d, session_id, 1), Turn(role, text))

\* save_message, first half: messages = self.get_messages(session_id);
\* messages.append({"role": role, "text": text})
save_read(d, session_id, role, text) ==
    Append(get_messages(d, session_id, DefaultLimit), Turn(role, text))

\* save_message, second half: the upsert of json.dumps(messages), on a
\* connection of its own.
save_write(d, session_id, messages) ==
    upsert(d, session_id, json_dumps(messages))

\* save_message(session_id, role, text) run without interruption: the table
\* after the call.
save_message(d, session_id, role, text) ==
    save_write(d, session_id, save_read(d, session_id, role, text))

\* The turns a session's record holds (none when it has no record).
Stored(d, session_id) ==
    IF session_id \in DOMAIN d THEN json_loads(d[session_id]) ELSE <<>>

Logged(l, session_id, role, text) ==
    [l EXCEPT ![session_id] = Append(@, Turn(role, text))]

(***************************************************************************)
(* Store-level specification: callers that use the SessionManager one call *)
(* at a time.                                                              *)
(***************************************************************************)
StoreTexts == {<<"a">>, <<" ">>}
TurnChoices == {Turn(r, t) : r \in Roles, t \in StoreTexts}
Scripts == UNION {[1..k -> TurnChoices] : k \in 1..MaxScript}
Limits == {0, 1, 2, DefaultLimit - 1, DefaultLimit, DefaultLimit + 1, DefaultLimit + 2}

NoCall == [called |-> FALSE, sid |-> "none", limit |-> 0, result |-> <<>>,
           before |-> <<>>]

Appends == Len(log[TokenPool[1]]) + Len(log["s1"])

InitStore ==
    /\ db = <<>>
    /\ log = [s \in SessionIds |-> <<>>]
    /\ ret = NoCall
    /\ script \in Scripts
    /\ flow = [f \in 1..NumFlows |-> [pc |-> "idle"]]

\* A caller runs session_manager.save_message(s, role, text) with the next
\* turn of the script for that session.
SaveMessage(s) ==
    LET m == script[(Len(log[s]) % Len(script)) + 1]
    IN  /\ Appends < MaxAppends
        /\ db' = save_message(db, s, m.role, m.text)
        /\ log' = Logged(log, s, m.role, m.text)
        /\ ret' = NoCall
        /\ UNCHANGED <<script, flow>>

\* A get_messages that creates the record it did not find (get-or-create).
GetMessages_creating(s, limit) ==
    /\ ret' = [called |-> TRUE, sid |-> s, limit |-> limit,
               result |-> get_messages(db, s, limit), before |-> db]
    /\ db' = IF s \in DOMAIN db THEN db ELSE upsert(db, s, json_dumps(<<>>))
    /\ UNCHANGED <<log, script, flow>>

\* A caller runs session_manager.get_messages(s, limit).
GetMessages(s, limit) ==
    /\ ret' = [called |-> TRUE, sid |-> s, limit |-> limit,
               result |-> get_messages(db, s, limit), before |-> db]
    /\ db' = db
    /\ UNCHANGED <<log, script, flow>>

NextStore ==
    \/ \E s \in StoreIds : SaveMessage(s)
    \/ \E s \in StoreIds, limit \in Limits : GetMessages(s, limit)

SpecStore == InitStore /\ [][NextStore]_vars

(***************************************************************************)
(* The /chat endpoint.                                                     *)
(***************************************************************************)
Flows == 1..NumFlows

\* data.get("session_id") when the key is absent or null.
NoneId == "<None>"

Apology == <<"Sorry, I encountered an error. Please try again!">>
Fallback == <<"I'm having trouble responding right now. Please try again!">>

\* What the collaborator hands back: result.messages and result.output
\* (an empty output stands for None).
Msg(role, content) == [role |-> role, content |-> content]
AgentResults ==
    { [messages |-> <<Msg("user", <<"a">>), Msg("assistant", <<"r">>)>>,
       output |-> <<"o">>],
      [messages |-> <<Msg("assistant", <<>>)>>, output |-> <<"o">>],
      [messages |-> <<>>, output |-> <<>>] }

\* for msg in reversed(result.messages): the content of the last message
\* with role assistant and a non-empty content, else nothing.
RECURSIVE last_assistant(_)
last_assistant(messages) ==
    IF messages = <<>> THEN <<>>
    ELSE LET msg == messages[Len(messages)]
         IN  IF msg.role = "assistant" /\ msg.content # <<>>
             THEN msg.content
             ELSE last_assistant(SubSeq(messages, 1, Len(messages) - 1))

\* The reply run_agent_with_memory extracts from a result.
extract_response(result) ==
    LET from_messages == last_assistant(result.messages)
        from_output == IF from_messages = <<>> THEN result.output
                       ELSE from_messages
    IN  IF from_output = <<>> THEN Fallback ELSE from_output

\* A run_agent_with_memory whose except branch answers with the fallback
\* text of the extraction.
agent_reply_fallback(raised, result) ==
    IF raised THEN Fallback ELSE extract_response(result)

\* The reply of run_agent_with_memory: the extracted text, or the apology
\* of the except branch when the runner raised.
agent_reply(raised, result) ==
    IF raised THEN Apology ELSE extract_response(result)

\* contextual_messages: the memory in OpenAI format, then the user message.
RECURSIVE to_context(_)
to_context(memory) ==
    IF memory = <<>> THEN <<>>
    ELSE <<Msg(Head(memory).role, Head(memory).text)>> \o to_context(Tail(memory))

\* A context with the user message put before the memory.
build_context_first(memory, user_message) ==
    <<Msg("user", user_message)>> \o to_context(memory)

build_context(memory, user_message) ==
    Append(to_context(memory), Msg("user", user_message))

\* Request bodies: not a JSON object at all, or an object whose session_id
\* is absent/null, "" or an id, and whose message is absent, null or a string.
MessageFields ==
    {[kind |-> "absent", str |-> <<>>], [kind |-> "null", str |-> <<>>]}
        \cup {[kind |-> "str", str |-> s] : s \in Strings(MaxMsgLen)}

InvalidBody == [kind |-> "invalid", session_id |-> NoneId,
                message |-> [kind |-> "absent", str |-> <<>>]]

\* Ids a client can send: its own, or one a response gave it.
KnownIds ==
    ClientIds \cup {flow[g].response.session_id :
                        g \in {h \in Flows : flow[h].status = 200}}

Bodies ==
    {InvalidBody} \cup
    {[kind |-> "json", session_id |-> s, message |-> m] :
        s \in {NoneId, ""} \cup KnownIds, m \in MessageFields}

\* A chat that draws a new session id for every request.
resolve_session_id_new(given, f) == TokenPool[f]

\* `if not session_id: session_id = secrets.token_urlsafe(32)`; the call of
\* flow f returns TokenPool[f].
resolve_session_id(given, f) ==
    IF given \in {NoneId, ""} THEN TokenPool[f] ELSE given

\* A chat that passes the reply to both save_message calls.
saved_turn_reply_twice(fl) ==
    IF fl.pc \in {"save_user", "write_user"}
    THEN Turn("user", fl.reply)
    ELSE Turn("assistant", fl.reply)

\* A chat that saves the assistant turn first and the user turn second.
saved_turn_swapped(fl) ==
    IF fl.pc \in {"save_user", "write_user"}
    THEN Turn("assistant", fl.reply)
    ELSE Turn("user", fl.message)

\* The turn the next save_message of a flow appends: the user turn, then
\* the assistant turn.
saved_turn(fl) ==
    IF fl.pc \in {"save_user", "write_user"}
    THEN Turn("user", fl.message)
    ELSE Turn("assistant", fl.reply)

NoResponse == [response |-> <<>>, session_id |-> ""]

NoFlow ==
    [pc |-> "idle", req |-> InvalidBody, sid |-> "", message |-> <<>>,
     memory |-> <<>>, window_sid |-> "", context |-> <<>>, agent_sid |-> "",
     outcome |-> "none", reply |-> <<>>, buf |-> <<>>, wrote |-> <<>>,
     status |-> 0, response |-> NoResponse, after |-> {}, fresh |-> FALSE,
     fault |-> FALSE]

Init ==
    /\ db = <<>>
    /\ log = [s \in SessionIds |-> <<>>]
    /\ ret = NoCall
    /\ script = <<>>
    /\ flow = [f \in Flows |-> NoFlow]

Done(f) == flow[f].pc = "done"

\* The flow ends with an HTTP error status and no response body.
Fail(fl, body, code) ==
    [fl EXCEPT !.pc = "done", !.req = body, !.status = code,
               !.after = {g \in Flows : Done(g)}]

\* chat, from the request to the await of the runner (lines 164-118):
\* parse the body, validate the message, settle the session id, load the
\* memory and build the context.
Receive(f, body) ==
    /\ flow[f].pc = "idle"
    /\ IF f = 1 THEN TRUE ELSE flow[f - 1].pc # "idle"
    /\ flow' = [flow EXCEPT ![f] =
          IF body.kind = "invalid" \/ body.message.kind = "null"
          THEN \* request.json() raises, or None.strip() raises
               \* AttributeError: `except Exception` answers 500
               Fail(@, body, 500)
          ELSE LET message == strip(body.message.str)
                   session_id == resolve_session_id(body.session_id, f)
                   memory == get_messages(db, session_id, DefaultLimit)
               IN  IF message = <<>>
                   THEN Fail(@, body, 400)
                   ELSE [@ EXCEPT !.pc = "awaiting", !.req = body,
                                  !.sid = session_id, !.message = message,
                                  !.memory = memory, !.window_sid = session_id,
                                  !.context = build_context(memory, message),
                                  !.agent_sid = session_id,
                                  !.after = {g \in Flows : Done(g)},
                                  !.fresh = (log[session_id] = <<>>)]]
    /\ UNCHANGED <<db, log, ret, script>>

\* `await runner.run(input=contextual_messages)` returns a result.
AgentReturns(f, result) ==
    /\ flow[f].pc = "awaiting"
    /\ flow' = [flow EXCEPT ![f] =
          [@ EXCEPT !.pc = "save_user", !.outcome = "returned",
                    !.reply = agent_reply(FALSE, result)]]
    /\ UNCHANGED <<db, log, ret, script>>

\* The runner raises.
AgentRaises(f) ==
    /\ flow[f].pc = "awaiting"
    /\ flow' = [flow EXCEPT ![f] =
          [@ EXCEPT !.pc = "save_user", !.outcome = "raised",
                    !.reply = agent_reply(TRUE, <<>>)]]
    /\ UNCHANGED <<db, log, ret, script>>

\* The read half of a save_message of the flow.
SaveRead(f) ==
    /\ flow[f].pc \in {"save_user", "save_asst"}
    /\ flow' = [flow EXCEPT ![f] =
          [@ EXCEPT !.pc = IF @ = "save_user" THEN "write_user" ELSE "write_asst",
                    !.buf = save_read(db, flow[f].sid, saved_turn(flow[f]).role,
                                      saved_turn(flow[f]).text)]]
    /\ UNCHANGED <<db, log, ret, script>>

\* A write that waits on a per-session lock which a flow holds from its
\* window read to its last write, the collaborator call included.
SaveWrite_locked(f) ==
    /\ \A g \in Flows \ {f} :
          ~(flow[g].pc = "awaiting" /\ flow[g].sid = flow[f].sid)
    /\ flow[f].pc \in {"write_user", "write_asst"}
    /\ db' = save_write(db, flow[f].sid, flow[f].buf)
    /\ log' = Logged(log, flow[f].sid, saved_turn(flow[f]).role,
                     saved_turn(flow[f]).text)
    /\ flow' = [flow EXCEPT ![f] =
          IF @.pc = "write_user"
          THEN [@ EXCEPT !.pc = "save_asst", !.buf = <<>>,
                         !.wrote = Append(@, [sid |-> flow[f].sid,
                                              turn |-> saved_turn(flow[f])])]
          ELSE [@ EXCEPT !.pc = "done", !.buf = <<>>, !.status = 200,
                         !.wrote = Append(@, [sid |-> flow[f].sid,
                                              turn |-> saved_turn(flow[f])]),
                         !.response = [response |-> flow[f].reply,
                                       session_id |-> flow[f].sid]]]
    /\ UNCHANGED <<ret, script>>

\* The write half of a save_message of the flow; after the second one the
\* flow returns {"response": reply, "session_id": session_id}.
SaveWrite(f) ==
    /\ flow[f].pc \in {"write_user", "write_asst"}
    /\ db' = save_write(db, flow[f].sid, flow[f].buf)
    /\ log' = Logged(log, flow[f].sid, saved_turn(flow[f]).role,
                     saved_turn(flow[f]).text)
    /\ flow' = [flow EXCEPT ![f] =
          IF @.pc = "write_user"
          THEN [@ EXCEPT !.pc = "save_asst", !.buf = <<>>,
                         !.wrote = Append(@, [sid |-> flow[f].sid,
                                              turn |-> saved_turn(flow[f])])]
          ELSE [@ EXCEPT !.pc = "done", !.buf = <<>>, !.status = 200,
                         !.wrote = Append(@, [sid |-> flow[f].sid,
                                              turn |-> saved_turn(flow[f])]),
                         !.response = [response |-> flow[f].reply,
                                       session_id |-> flow[f].sid]]]
    /\ UNCHANGED <<ret, script>>

Next ==
    \/ \E f \in Flows : \E body \in Bodies : Receive(f, body)
    \/ \E f \in Flows : \E result \in AgentResults : AgentReturns(f, result)
    \/ \E f \in Flows : AgentRaises(f)
    \/ \E f \in Flows : SaveRead(f)
    \/ \E f \in Flows : SaveWrite(f)

Spec == Init /\ [][Next]_vars

\* Once the runner's await has returned or raised, chat runs to its return
\* without waiting on anything: both halves of each save_message are fair.
\* Nothing makes the runner return.
SpecLive ==
    /\ Init
    /\ [][Next]_vars
    /\ \A f \in Flows : WF_vars(SaveRead(f)) /\ WF_vars(SaveWrite(f))

(***************************************************************************)
(* The endpoint served by one event loop: a flow yields only at the await  *)
(* of the runner, so what follows it (the extraction of the reply, both    *)
(* save_message calls and the return) runs as one step.                    *)
(***************************************************************************)
\* session_manager.save_message(session_id, "user", message), then
\* session_manager.save_message(session_id, "assistant", reply).
persist(d, session_id, message, reply) ==
    save_message(save_message(d, session_id, "user", message),
                 session_id, "assistant", reply)

\* The flow after the runner's await ended with this reply.
Answered(fl, outcome, reply) ==
    [fl EXCEPT !.pc = "done", !.outcome = outcome, !.reply = reply,
               !.status = 200,
               !.wrote = << [sid |-> fl.sid, turn |-> Turn("user", fl.message)],
                            [sid |-> fl.sid, turn |-> Turn("assistant", reply)] >>,
               !.response = [response |-> reply, session_id |-> fl.sid]]

\* A resume that writes back the memory it read before the await, with the
\* two new turns added.
ResumeReturns_stale(f, result) ==
    /\ flow[f].pc = "awaiting"
    /\ LET reply == agent_reply(FALSE, result)
       IN  /\ db' = save_write(db, flow[f].sid,
                               flow[f].memory \o << Turn("user", flow[f].message),
                                                    Turn("assistant", reply) >>)
           /\ log' = Logged(Logged(log, flow[f].sid, "user", flow[f].message),
                            flow[f].sid, "assistant", reply)
           /\ flow' = [flow EXCEPT ![f] = Answered(@, "returned", reply)]
    /\ UNCHANGED <<ret, script>>

\* The runner returns a result and the flow runs to its return.
ResumeReturns(f, result) ==
    /\ flow[f].pc = "awaiting"
    /\ LET reply == agent_reply(FALSE, result)
       IN  /\ db' = persist(db, flow[f].sid, flow[f].message, reply)
           /\ log' = Logged(Logged(log, flow[f].sid, "user", flow[f].message),
                            flow[f].sid, "assistant", reply)
           /\ flow' = [flow EXCEPT ![f] = Answered(@, "returned", reply)]
    /\ UNCHANGED <<ret, script>>

\* The runner raises and the flow runs to its return.
ResumeRaises(f) ==
    /\ flow[f].pc = "awaiting"
    /\ LET reply == agent_reply(TRUE, <<>>)
       IN  /\ db' = persist(db, flow[f].sid, flow[f].message, reply)
           /\ log' = Logged(Logged(log, flow[f].sid, "user", flow[f].message),
                            flow[f].sid, "assistant", reply)
           /\ flow' = [flow EXCEPT ![f] = Answered(@, "raised", reply)]
    /\ UNCHANGED <<ret, script>>

NextLoop ==
    \/ \E f \in Flows : \E body \in Bodies : Receive(f, body)
    \/ \E f \in Flows : \E result \in AgentResults : ResumeReturns(f, result)
    \/ \E f \in Flows : ResumeRaises(f)

(***************************************************************************)
(* The endpoint with a store that can fail: any sqlite3 call of a flow may *)
(* raise, and chat's `except Exception` answers 500.                       *)
(***************************************************************************)
\* A failed upsert whose change was committed before the error surfaced.
failed_write_applied(d, session_id, messages) ==
    upsert(d, session_id, json_dumps(messages))

\* The table after an upsert that raised: `with self._get_conn() as conn`
\* rolls the transaction back.
failed_write(d, session_id, messages) ==
    d

\* get_messages raises in run_agent_with_memory (line 105, before the try):
\* the error reaches chat's `except Exception`.
ReceiveStorageFails(f, body) ==
    /\ flow[f].pc = "idle"
    /\ IF f = 1 THEN TRUE ELSE flow[f - 1].pc # "idle"
    /\ body.kind = "json"
    /\ body.message.kind = "str"
    /\ strip(body.message.str) # <<>>
    /\ flow' = [flow EXCEPT ![f] =
          [Fail(@, body, 500) EXCEPT
              !.sid = resolve_session_id(body.session_id, f),
              !.message = strip(body.message.str),
              !.fresh = (log[resolve_session_id(body.session_id, f)] = <<>>),
              !.fault = TRUE]]
    /\ UNCHANGED <<db, log, ret, script>>

\* The SELECT or the upsert of a save_message of the flow raises.
SaveStorageFails(f) ==
    /\ flow[f].pc \in {"save_user", "write_user", "save_asst", "write_asst"}
    /\ db' = IF flow[f].pc \in {"write_user", "write_asst"}
             THEN failed_write(db, flow[f].sid, flow[f].buf)
             ELSE db
    /\ flow' = [flow EXCEPT ![f] =
          [@ EXCEPT !.pc = "done", !.status = 500, !.buf = <<>>,
                    !.fault = TRUE]]
    /\ UNCHANGED <<log, ret, script>>

NextFault ==
    \/ Next
    \/ \E f \in Flows : \E body \in Bodies : ReceiveStorageFails(f, body)
    \/ \E f \in Flows : SaveStorageFails(f)

SpecFault == Init /\ [][NextFault]_vars

(***************************************************************************)
(* The endpoint on a table that earlier, answered requests on session "s1" *)
(* have filled: n save_message calls, user and assistant turns in turn.    *)
(***************************************************************************)
PriorAppends == {0, 18, 20, 22}

PriorTurn(i) ==
    IF i % 2 = 1 THEN Turn("user", <<"a">>) ELSE Turn("assistant", <<"r">>)

\* The table after the first n of these save_message calls.
RECURSIVE Replay(_)
Replay(n) ==
    IF n = 0 THEN <<>>
    ELSE save_message(Replay(n - 1), "s1", PriorTurn(n).role, PriorTurn(n).text)

InitLoaded ==
    \E n \in PriorAppends :
        /\ db = Replay(n)
        /\ log = [s \in SessionIds |->
                    IF s = "s1" THEN [i \in 1..n |-> PriorTurn(i)] ELSE <<>>]
        /\ ret = NoCall
        /\ script = <<>>
        /\ flow = [f \in Flows |-> NoFlow]

SpecLoaded == InitLoaded /\ [][Next]_vars

SpecLoop == InitLoaded /\ [][NextLoop]_vars

(***************************************************************************)
(* Claims about the SessionManager, under SpecStore.                       *)
(***************************************************************************)

\* C1: after n save_message calls on a session its stored sequence holds
\* all n turns in append order (nothing appended is ever removed).
C1_StoredIsAllAppends ==
    \A s \in StoreIds : Stored(db, s) = log[s]

\* C2: for every limit >= 0, get_messages(session_id, limit) returns exactly
\* the last min(limit, n) of the n stored turns, in their stored order.
C2_LastMinLimit ==
    ret.called =>
        LET stored == Stored(ret.before, ret.sid)
        IN  ret.result = LastK(stored, Min(ret.limit, Len(stored)))

\* C3: get_messages(sid, 20) never returns more than 20 turns, and returns
\* the (up to) 20 most recently appended turns in their append order.
C3_Recent20 ==
    (ret.called /\ ret.limit = 20) =>
        /\ Len(ret.result) <= 20
        /\ ret.result = LastK(log[ret.sid], 20)

\* C3 witness: a read with limit 20 of a session that was appended to more
\* than 21 times.
C3_Witness ==
    /\ ret.called
    /\ ret.limit = 20
    /\ Len(log[ret.sid]) >= 22
    /\ Len(ret.result) = 20

\* C4: get_messages on a session id never appended to returns the empty
\* sequence, for every limit, and leaves the table as it was: the session
\* still has no record.
C4_UnknownSessionEmpty ==
    (ret.called /\ log[ret.sid] = <<>>) =>
        /\ ret.result = <<>>
        /\ ret.sid \notin DOMAIN db
        /\ db = ret.before

\* C4 witness: a read with a positive limit of a session never appended to,
\* while another session holds turns.
C4_Witness ==
    /\ ret.called
    /\ ret.limit > 0
    /\ log[ret.sid] = <<>>
    /\ \E s \in StoreIds : Len(Stored(db, s)) > 0

(***************************************************************************)
(* Claims about the /chat endpoint, under Spec.                            *)
(***************************************************************************)
IsBlank(s) == \A i \in 1..Len(s) : s[i] \in Whitespace
Range(seq) == {seq[i] : i \in 1..Len(seq)}
Accepted(f) == flow[f].sid # ""
Generated(f) == Accepted(f) /\ flow[f].req.session_id \in {NoneId, ""}
OnlyFlowsOn(s, F) == \A h \in Flows \ F : flow[h].sid # s
Overlap(f, g) ==
    /\ f # g
    /\ flow[f].pc # "idle" /\ flow[g].pc # "idle"
    /\ g \notin flow[f].after /\ f \notin flow[g].after
\* The turns a flow has written, in the order it wrote them.
WroteTurns(f) == [i \in 1..Len(flow[f].wrote) |-> flow[f].wrote[i].turn]
\* Two answered requests, g received after f was answered, the only ones on
\* a session that had no turn before f.
Sequential(f, g) ==
    /\ f # g
    /\ flow[f].status = 200 /\ flow[g].status = 200
    /\ flow[f].sid = flow[g].sid
    /\ f \in flow[g].after
    /\ flow[f].fresh
    /\ OnlyFlowsOn(flow[f].sid, {f, g})

\* C5 as stated: after two sequential chat requests with messages a then b
\* on a previously empty session, get_messages(sid, 10) is user a,
\* assistant reply-1, user b, assistant reply-2, with a and b as sent.
C5_FourTurnsAsSent ==
    \A f, g \in Flows :
        Sequential(f, g) =>
            get_messages(db, flow[f].sid, 10) =
                << Turn("user", flow[f].req.message.str),
                   Turn("assistant", flow[f].response.response),
                   Turn("user", flow[g].req.message.str),
                   Turn("assistant", flow[g].response.response) >>

\* C5 amended: the four turns are user a', assistant reply-1, user b',
\* assistant reply-2, where a' and b' are a and b without their leading and
\* trailing whitespace.
C5_FourTurnsTrimmed ==
    \A f, g \in Flows :
        Sequential(f, g) =>
            LET a == flow[f].req.message.str
                b == flow[g].req.message.str
                trimmed(s) == CHOOSE u \in Strings(Len(s)) :
                    /\ u # <<>> /\ u[1] \notin Whitespace
                    /\ u[Len(u)] \notin Whitespace
                    /\ \E i, j \in 0..Len(s) :
                          /\ i + Len(u) + j = Len(s)
                          /\ SubSeq(s, i + 1, i + Len(u)) = u
                          /\ IsBlank(SubSeq(s, 1, i))
                          /\ IsBlank(SubSeq(s, i + Len(u) + 1, Len(s)))
            IN  get_messages(db, flow[f].sid, 10) =
                    << Turn("user", trimmed(a)),
                       Turn("assistant", flow[f].response.response),
                       Turn("user", trimmed(b)),
                       Turn("assistant", flow[g].response.response) >>

\* C5 witness: two sequential answered requests on one session with
\* different messages, the second sent with surrounding whitespace.
C5_Witness ==
    \E f, g \in Flows :
        /\ Sequential(f, g)
        /\ flow[f].message # flow[g].message
        /\ flow[g].req.message.str # flow[g].message

\* C6: a request whose message is empty or all whitespace ends at once with
\* status 400: the collaborator is not invoked and the flow writes no turn.
C6_BlankRejected ==
    \A f \in Flows :
        (/\ flow[f].pc # "idle"
         /\ flow[f].req.kind = "json"
         /\ flow[f].req.message.kind = "str"
         /\ IsBlank(flow[f].req.message.str)) =>
            /\ Done(f)
            /\ flow[f].status = 400
            /\ flow[f].outcome = "none"
            /\ flow[f].context = <<>>
            /\ flow[f].wrote = <<>>
            /\ ~Accepted(f)

\* C6 witness: a whitespace-only message was rejected while the table holds
\* another request's turns.
C6_Witness ==
    \E f \in Flows :
        /\ Done(f)
        /\ flow[f].req.message.kind = "str"
        /\ flow[f].req.message.str # <<>>
        /\ IsBlank(flow[f].req.message.str)
        /\ flow[f].status = 400
        /\ db # <<>>

\* C7: when the collaborator call raises, the reply is the fixed apology,
\* the request is never answered with an error, and once it is answered
\* it returned 200 with the apology and wrote the user turn and then the
\* apology as the assistant turn; alone on its session these are the last
\* two stored turns.
C7_ApologyPersisted ==
    \A f \in Flows :
        flow[f].outcome = "raised" =>
            /\ flow[f].reply = Apology
            /\ flow[f].status \in {0, 200}
            /\ Done(f) =>
                  /\ flow[f].status = 200
                  /\ flow[f].response =
                        [response |-> Apology, session_id |-> flow[f].sid]
                  /\ WroteTurns(f) = << Turn("user", flow[f].message),
                                        Turn("assistant", Apology) >>
                  /\ OnlyFlowsOn(flow[f].sid, {f}) =>
                        LastK(Stored(db, flow[f].sid), 2) = WroteTurns(f)

\* C7 witness: an answered request whose collaborator call raised.
C7_Witness ==
    \E f \in Flows :
        /\ Done(f)
        /\ flow[f].outcome = "raised"
        /\ flow[f].status = 200
        /\ Len(Stored(db, flow[f].sid)) >= 2

\* C8: a request without a session id gets a new non-empty id, one with a
\* non-empty id keeps it; the window read, the collaborator call, both
\* appends and the response all use that id; and a later request that
\* carries an id a response returned reads the turns of that session and
\* extends them.
C8_SessionId ==
    \A f \in Flows :
        Accepted(f) =>
            /\ flow[f].sid \notin {"", NoneId}
            /\ Generated(f) =>
                  /\ flow[f].fresh
                  /\ flow[f].sid \notin ClientIds
                  /\ \A g \in Flows \ {f} :
                        Generated(g) => flow[g].sid # flow[f].sid
            /\ ~Generated(f) => flow[f].sid = flow[f].req.session_id
            /\ flow[f].window_sid = flow[f].sid
            /\ flow[f].agent_sid = flow[f].sid
            /\ \A i \in 1..Len(flow[f].wrote) : flow[f].wrote[i].sid = flow[f].sid
            /\ flow[f].status = 200 => flow[f].response.session_id = flow[f].sid
            /\ \A g \in Flows \ {f} :
                  (/\ Generated(g) /\ flow[g].status = 200
                   /\ flow[f].req.session_id = flow[g].response.session_id
                   /\ OnlyFlowsOn(flow[g].sid, {f, g})) =>
                      /\ flow[f].memory = WroteTurns(g)
                      /\ flow[f].status = 200 =>
                            Stored(db, flow[g].sid) = WroteTurns(g) \o WroteTurns(f)

\* C8 witness: a request without a session id was answered, and a second
\* request carrying the returned id was answered too.
C8_Witness ==
    \E f, g \in Flows :
        /\ Generated(g) /\ flow[g].status = 200
        /\ flow[f].req.session_id = flow[g].response.session_id
        /\ flow[f].status = 200
        /\ Len(Stored(db, flow[g].sid)) = 4

\* C9: POST /chat answers 400 whenever the message is missing or empty
\* (absent key, null, "" or whitespace only), 500 on any other failure, and
\* never 500 for a validation rejection.
C9_MissingOrEmptyIs400 ==
    \A f \in Flows :
        Done(f) =>
            /\ flow[f].status \in {200, 400, 500}
            /\ flow[f].req.kind = "invalid" => flow[f].status = 500
            /\ (/\ flow[f].req.kind = "json"
                /\ \/ flow[f].req.message.kind \in {"absent", "null"}
                   \/ IsBlank(flow[f].req.message.str)) =>
                  flow[f].status = 400

\* C10: a turn is missing from a session's record (short of the 21 turns a
\* record holds) only when two requests on that session overlapped, and the
\* record always ends with the turn written last: the last write of the
\* whole sequence wins.
C10_LastWriteWins ==
    \A s \in SessionIds :
        /\ log[s] # <<>> =>
              /\ Stored(db, s) # <<>>
              /\ Stored(db, s)[Len(Stored(db, s))] = log[s][Len(log[s])]
        /\ (Len(log[s]) <= DefaultLimit + 1 /\ Stored(db, s) # log[s]) =>
              \E f, g \in Flows :
                  /\ Overlap(f, g)
                  /\ flow[f].sid = s /\ flow[g].sid = s

\* C10 witness: two answered requests on one session, and a turn one of
\* them wrote is not in the session's record.
C10_LostUpdate ==
    \E f, g \in Flows :
        /\ f # g
        /\ flow[f].status = 200 /\ flow[g].status = 200
        /\ flow[f].sid = flow[g].sid
        /\ \E i \in 1..Len(flow[f].wrote) :
              flow[f].wrote[i].turn \notin Range(Stored(db, flow[f].sid))

\* C11: a flow writes its user turn first and its assistant turn second,
\* so its assistant turn is written only after its user turn; and when every
\* other flow on the session was answered before this one began, its user
\* turn and then its assistant turn are the last two stored turns.
C11_UserBeforeAssistant ==
    \A f \in Flows :
        /\ Len(flow[f].wrote) <= 2
        /\ Len(flow[f].wrote) >= 1 =>
              flow[f].wrote[1].turn = Turn("user", flow[f].message)
        /\ Len(flow[f].wrote) = 2 =>
              flow[f].wrote[2].turn = Turn("assistant", flow[f].reply)
        /\ (/\ flow[f].status = 200
            /\ \A g \in Flows \ {f} :
                  flow[g].sid = flow[f].sid => g \in flow[f].after) =>
              LastK(Stored(db, flow[f].sid), 2) =
                  << Turn("user", flow[f].message),
                     Turn("assistant", flow[f].reply) >>

\* C11 witness: an answered flow on a session that an earlier answered flow
\* had written to, whose reply differs from its message.
C11_Witness ==
    \E f, g \in Flows :
        /\ f # g
        /\ flow[f].status = 200 /\ flow[g].status = 200
        /\ flow[g].sid = flow[f].sid
        /\ g \in flow[f].after
        /\ Len(flow[f].wrote) = 2
        /\ Len(Stored(db, flow[f].sid)) = 4

\* C12: when a flow reaches the collaborator call, the context it passes is
\* the last (at most 20) stored turns of its session as read in that step,
\* each as a role+content pair in stored order, followed by one entry with
\* role user carrying the flow's message: at most 21 entries.
C12_Context ==
    [][\A f \in Flows :
          (flow[f].pc = "idle" /\ flow'[f].pc = "awaiting") =>
              LET window == LastK(Stored(db, flow'[f].sid), 20)
                  ctx == flow'[f].context
              IN  /\ Len(ctx) = Len(window) + 1
                  /\ Len(ctx) <= 21
                  /\ \A i \in 1..Len(window) :
                        ctx[i] = [role |-> window[i].role,
                                  content |-> window[i].text]
                  /\ ctx[Len(ctx)] =
                        [role |-> "user", content |-> flow'[f].message]]_vars

\* C12 witness: a flow waits for the collaborator with a context of 21
\* entries, read from a session that holds 21 turns.
C12_Witness ==
    \E f \in Flows :
        /\ flow[f].pc = "awaiting"
        /\ Len(flow[f].context) = 21
        /\ Len(Stored(db, flow[f].sid)) = 21

\* C13: the first save_message on a session creates its record with exactly
\* that one turn, and after two or more save_message calls on a session the
\* next get_messages (limit 2 or more) ends with the last two appended
\* turns, in the order they were appended.
C13_CreateThenBothVisible ==
    \A s \in StoreIds :
        /\ Len(log[s]) = 1 => (s \in DOMAIN db /\ Stored(db, s) = log[s])
        /\ (ret.called /\ ret.sid = s /\ ret.limit >= 2 /\ Len(log[s]) >= 2) =>
              LastK(ret.result, 2) = LastK(log[s], 2)

\* C13 witness: a read with the default limit of a session whose only two
\* appends were a user turn and then an assistant turn.
C13_Witness ==
    /\ ret.called
    /\ ret.limit = DefaultLimit
    /\ Len(log[ret.sid]) = 2
    /\ log[ret.sid][1].role = "user"
    /\ log[ret.sid][2].role = "assistant"
    /\ Len(ret.result) = 2

\* C14: a storage failure ends its own request with status 500 and no
\* response body; the failing call leaves the table as it was, so the request
\* has added none of its turns or only its user turn (never more than its
\* two turns, all on its own session); and a later request on the same
\* session is answered and finds exactly the turns written before it.
C14_StorageFailureLocal ==
    /\ [](\A f \in Flows :
            flow[f].fault =>
                /\ Done(f)
                /\ flow[f].status = 500
                /\ flow[f].response = NoResponse
                /\ Len(flow[f].wrote) <= 2
                /\ WroteTurns(f) =
                      SubSeq(<< Turn("user", flow[f].message),
                                Turn("assistant", flow[f].reply) >>,
                             1, Len(flow[f].wrote))
                /\ \A i \in 1..Len(flow[f].wrote) :
                      flow[f].wrote[i].sid = flow[f].sid
                /\ \A g \in Flows \ {f} :
                      (/\ flow[g].status = 200
                       /\ f \in flow[g].after
                       /\ flow[g].sid = flow[f].sid
                       /\ flow[f].fresh
                       /\ OnlyFlowsOn(flow[f].sid, {f, g})) =>
                          Stored(db, flow[f].sid) = WroteTurns(f) \o WroteTurns(g))
    /\ [][\A f \in Flows :
            (~flow[f].fault /\ flow'[f].fault) => db' = db]_vars

\* C14 witness: a request failed in the store after its user turn was
\* written, and a later request on the same session was answered.
C14_Witness ==
    \E f, g \in Flows :
        /\ flow[f].fault
        /\ Len(flow[f].wrote) = 1
        /\ flow[g].status = 200
        /\ f \in flow[g].after
        /\ flow[g].sid = flow[f].sid
        /\ Len(Stored(db, flow[f].sid)) = 3

\* C15: a flow that waits for the collaborator has written no turn, and
\* every flow whose collaborator call has returned or raised eventually is
\* answered with 200 after writing its two turns, whatever the other flows
\* do (their collaborator calls may never return).
C15_Progress ==
    \A f \in Flows :
        /\ [](flow[f].pc = "awaiting" => flow[f].wrote = <<>>)
        /\ (flow[f].pc = "save_user") ~>
              (Done(f) /\ flow[f].status = 200 /\ Len(flow[f].wrote) = 2)

\* C15 witness: a flow was answered after writing its two turns while an
\* earlier flow on the same session still waits for the collaborator.
C15_Witness ==
    \E f, g \in Flows :
        /\ g < f
        /\ flow[g].pc = "awaiting"
        /\ flow[g].sid = flow[f].sid
        /\ flow[f].status = 200
        /\ Len(flow[f].wrote) = 2

\* C16: a session's record never holds more than 21 turns, and after n
\* save_message calls made one at a time it holds the last min(n, 21)
\* appended turns, in append order.
C16_KeepsLast21 ==
    \A s \in StoreIds :
        /\ Len(Stored(db, s)) <= 21
        /\ Stored(db, s) = LastK(log[s], Min(Len(log[s]), 21))

\* C16 witness: a session appended to 23 times holds 21 turns.
C16_Witness ==
    \E s \in StoreIds :
        /\ Len(log[s]) >= 23
        /\ Len(Stored(db, s)) = 21

\* C17: when a flow yields only at the collaborator call, then for any
\* flows on one session, concurrent or not: the step that resumes a flow
\* leaves its user turn and then its assistant turn as the last two stored
\* turns, added to everything stored before when that was fewer than 20
\* turns; and as long as no more than 21 turns were appended to a session,
\* its record holds every appended turn in append order.
C17_AdjacentNoLoss ==
    /\ [](\A s \in SessionIds :
            Len(log[s]) <= 21 => Stored(db, s) = log[s])
    /\ [][\A f \in Flows :
            (flow[f].pc = "awaiting" /\ flow'[f].pc = "done") =>
                LET s == flow[f].sid
                    pair == << Turn("user", flow[f].message),
                               Turn("assistant", flow'[f].reply) >>
                IN  /\ LastK(Stored(db', s), 2) = pair
                    /\ Len(Stored(db, s)) < 20 =>
                          Stored(db', s) = Stored(db, s) \o pair]_vars

\* C17 witness: two flows on one session waited for the collaborator at the
\* same time, both were answered, and the record holds the four turns they
\* appended.
C17_Witness ==
    \E f, g \in Flows :
        /\ Overlap(f, g)
        /\ flow[f].status = 200 /\ flow[g].status = 200
        /\ flow[f].sid = flow[g].sid
        /\ flow[f].memory = flow[g].memory
        /\ Len(log[flow[f].sid]) <= 21
        /\ Stored(db, flow[f].sid) = flow[f].memory \o WroteTurns(f) \o WroteTurns(g)

\* C18: a step of a flow leaves every session other than the flow's own as
\* it was (its record exists or not as before, with the same turns), and a
\* step that is not the write half of a save_message (the window read, a
\* collaborator result, the read half of a save_message) leaves the whole
\* table as it was.
C18_Isolation ==
    [][\A f \in Flows :
          flow'[f] # flow[f] =>
              /\ \A s \in SessionIds \ {flow'[f].sid} :
                    /\ (s \in DOMAIN db') = (s \in DOMAIN db)
                    /\ Stored(db', s) = Stored(db, s)
              /\ flow[f].pc \notin {"write_user", "write_asst"} => db' = db]_vars

\* C18 witness: two flows that overlapped were answered on different
\* sessions, and each session holds the two turns of its own flow.
C18_Witness ==
    \E f, g \in Flows :
        /\ Overlap(f, g)
        /\ flow[f].status = 200 /\ flow[g].status = 200
        /\ flow[f].sid # flow[g].sid
        /\ flow[f].message # flow[g].message
        /\ Stored(db, flow[f].sid) = WroteTurns(f)
        /\ Stored(db, flow[g].sid) = WroteTurns(g)

====
